---- MODULE Spec2Model ----
(***************************************************************************)
(* Model of linkchecker2.py: crawl_website with its state file             *)
(* (crawl_state.pkl), its report file (the CSV opened in append mode) and  *)
(* the process being killed and started again.                             *)
(*                                                                         *)
(* A URL is the sequence <<scheme, netloc, path segment, ...>>; str        *)
(* startswith is the prefix test on that sequence.                         *)
(***************************************************************************)
EXTENDS Integers, Sequences, FiniteSets, Bags, TLC

(* ---- bounds of the model ---- *)
\* number of times the process is started (first start and restarts)
MaxRuns == 2

(* ---- the URLs of the modelled site ---- *)
\* line 154: base_url = "https://library2.utm.utoronto.ca/otra/reed/"
base_url == <<"https", "library2.utm.utoronto.ca", "otra", "reed">>
\* line 153: start_url, the same string as base_url
start_url == <<"https", "library2.utm.utoronto.ca", "otra", "reed">>
\* line 134: the prefix of the links the crawl loop skips
tagged_prefix == <<"https", "library2.utm.utoronto.ca", "otra", "reed", "tagged-records">>

PageB == <<"https", "library2.utm.utoronto.ca", "otra", "reed", "b">>
PageC == <<"https", "library2.utm.utoronto.ca", "otra", "reed", "c">>
Tagged == <<"https", "library2.utm.utoronto.ca", "otra", "reed", "tagged-records", "1">>
External == <<"https", "external.example">>
\* an href such as "mailto:x": a scheme and no netloc
Mailto == <<"mailto", "", "x">>

\* what urljoin(url, href) gives for the anchors of the site's pages
Hrefs == {start_url, PageB, PageC, Tagged, External, Mailto}

\* the anchor sets a fetched HTML page of the site may carry
Documents == { {PageB, PageC}, {start_url, External}, {Tagged, Mailto} }

\* the anchors the site may put inside <nav>
NavAnchors == {PageB, PageC}

\* the links whose GET fails or answers 404; the others answer 200
DeadLinks == {External, PageC}

NoPage == <<>>

\* the header row and the cells of the status column
HeaderRow == << <<"Source Page">>, <<"Link URL">>, "Status" >>
Working == "Working"
Broken == "Broken"

(* ---- pure functions of the program ---- *)
StartsWith(s, prefix) ==
    /\ Len(s) >= Len(prefix)
    /\ SubSeq(s, 1, Len(prefix)) = prefix

is_valid_url(url) == url[2] # "" /\ url[1] # ""

is_same_or_subpath(url, base) == StartsWith(url, base)

\* a response of requests.get: an exception, or a status code, the
\* Content-Type header (the sequence of its parts, empty when the header is
\* missing) and the anchors of the document, some of them inside <nav>
\* error is the class of the exception, "" when there is none
Failure(e) ==
    [exc |-> TRUE, error |-> e, status_code |-> 0, content_type |-> <<>>,
     anchors |-> {}, nav |-> {}]
Answer(code) ==
    [exc |-> FALSE, error |-> "", status_code |-> code, content_type |-> <<"text/html">>,
     anchors |-> {}, nav |-> {}]
Failed == Failure("ConnectionError")
NotFound == Answer(404)
Ok == Answer(200)

\* the exceptions requests.get raises when the transport fails
TransportErrors == {"ConnectionError", "Timeout", "TooManyRedirects"}

\* the classes derived from requests.exceptions.RequestException
RequestExceptions ==
    {"ConnectionError", "Timeout", "TooManyRedirects", "HTTPError", "InvalidURL"}

\* lines 30, 52 and 74 with an except clause that matches nothing
CaughtNever(response) == FALSE

\* lines 30, 52 and 74: except requests.exceptions.RequestException
Caught(response) == response.error \in RequestExceptions

\* the exception leaves check_link, extract_menu_links or get_body_links
Raises(response) == response.exc /\ ~Caught(response)

ContentTypes ==
    { <<"text/html">>, <<"text/html", "charset=utf-8">>, <<"application/pdf">>, <<>> }

\* the responses to the GET of check_link(url); their body is not looked at
StatusResponses(url) == IF url \in DeadLinks THEN {Failed, NotFound} ELSE {Ok}

\* the responses to the GET of a page: a failure, or a body of some content
\* type; an HTML body is one of the documents, at most one of its anchors
\* inside <nav>
PageResponses ==
    {Failed} \cup
    UNION { { [exc |-> FALSE, error |-> "", status_code |-> 200, content_type |-> t,
               anchors |-> a, nav |-> n] :
                n \in {x \in SUBSET (a \cap NavAnchors) : Cardinality(x) <= 1},
                t \in ContentTypes } :
            a \in Documents }

\* lines 17-20: "text/html" in content_type
is_html(response) ==
    \E i \in 1..Len(response.content_type) : response.content_type[i] = "text/html"

\* line 26 testing response.ok in place of the status code
check_link_ok(response) ==
    IF response.exc THEN Broken
    ELSE IF response.status_code < 400 THEN Working ELSE Broken

\* lines 22-31, the exception being one the except clause catches
check_link(response) ==
    IF response.exc THEN Broken
    ELSE IF response.status_code = 200 THEN Working ELSE Broken

extract_menu_links(response) ==
    IF response.exc THEN {}
    ELSE IF ~is_html(response) THEN {}
    ELSE {u \in response.nav : is_valid_url(u)}

\* lines 56-76 without the menu test of line 69
get_body_links_all(url, response, menu) ==
    IF response.exc THEN {}
    ELSE IF ~is_html(response) THEN {}
    ELSE {<<url, u>> : u \in {x \in response.anchors : is_valid_url(x)}}

\* lines 56-76
get_body_links(url, response, menu) ==
    IF response.exc THEN {}
    ELSE IF ~is_html(response) THEN {}
    ELSE {<<url, u>> : u \in {x \in response.anchors :
                                  is_valid_url(x) /\ x \notin menu}}

(* ---- the conditions and updates of crawl_website ---- *)
\* line 95: starting fresh, the start_url is added
NeedsSeed(visited, frontier) == visited = {} /\ frontier = {}

\* line 99 with its condition dropped
MenuPassAlways(visited) == TRUE

\* line 99: menu links are extracted only at the beginning
MenuPassDue(visited) == visited = {}

\* line 123
ShouldVisit(page, visited, base) ==
    page \notin visited /\ is_same_or_subpath(page, base)

\* line 124 left out
MarkVisitedNot(visited, page) == visited

\* line 124
MarkVisited(visited, page) == visited \cup {page}

\* line 134 with a prefix no link starts with
IsTaggedNever(link_url) == FALSE

\* line 134
IsTagged(link_url) == StartsWith(link_url, tagged_prefix)

\* lines 112 and 141 with the flag ignored
KeepAll(only_broken, status) == TRUE

\* lines 112 and 141
Keep(only_broken, status) == ~only_broken \/ status = Broken

\* line 144 without its visited test
EnqueueVisited(link_url, visited, base) == is_same_or_subpath(link_url, base)

\* line 144 without its scope test
EnqueueUnscoped(link_url, visited, base) == link_url \notin visited

\* line 144
ShouldEnqueue(link_url, visited, base) ==
    is_same_or_subpath(link_url, base) /\ link_url \notin visited

\* the rows of a block never reaching the file
CloseFileEmpty(file, written) == file

\* leaving a `with open(csv_filename, mode='a')` block: the rows written
\* inside it reach the file
CloseFile(file, written) == file \o written

(* ---- the files ---- *)
\* crawl_state.pkl: absent; or opened 'wb' and not yet dumped (readable =
\* FALSE: pickle.load raises on it); or holding the pickled pair
NoStateFile == [exists |-> FALSE, readable |-> FALSE, visited |-> {}, frontier |-> {}]
OpenedStateFile == [exists |-> TRUE, readable |-> FALSE, visited |-> {}, frontier |-> {}]
\* line 81 with the pair in the other order
PickledSwapped(visited, frontier) ==
    [exists |-> TRUE, readable |-> TRUE, visited |-> frontier, frontier |-> visited]

Pickled(visited, frontier) ==
    [exists |-> TRUE, readable |-> TRUE, visited |-> visited, frontier |-> frontier]

\* lines 83-88 looking for a file that is never there
load_state_missing(file) == <<{}, {}>>

\* load_state, lines 83-88, on a file pickle.load can read
load_state(file) ==
    IF file.exists THEN <<file.visited, file.frontier>> ELSE <<{}, {}>>

ZeroCount == [u \in Hrefs |-> 0]
NoLog == [u \in Hrefs |-> {}]
NoChecks == EmptyBag

VARIABLES
    stateFile,          \* crawl_state.pkl
    csv,                \* the rows of the report file on disk
    record_only_broken, \* the flag, fixed for the life of the crawl
    runs,               \* how many times the process was started
    pc,                 \* where the process is
    visited_pages, links_to_crawl, menu_links, count_links, current_page,
    menu_todo,          \* menu links the loop of line 103 has not reached
    menu_results,       \* line 101
    page_links,         \* the pairs the loop of line 132 has not reached
    written,            \* rows written to the open report file, not yet on disk
    printed_total,      \* line 150, -1 before it
    \* history of the current run
    loaded,             \* the pair the state file held when the run started
    menuRan,            \* the branch of line 99 was taken
    visits,             \* per URL, how often line 124-127 ran for it
    fetches,            \* number of requests.get calls
    checks,             \* number of check_link calls
    rowCalls,           \* number of writer.writerow calls, header included
    enqueued,           \* the URLs line 145 added
    extracted,          \* the links get_body_links returned for current_page
    pageLog,            \* <<link, status>> of the links verified on current_page
    degraded,           \* the last GET of line 59 failed or was not HTML
    bodyChecks,         \* the bag of the <<source page, link>> line 137 verified
    seen,               \* in-scope, not tagged anchors of the HTML pages line 59 got
    \* history of the whole crawl
    prevEnd,            \* how the previous run ended
    extracts,           \* per URL, how often get_body_links ran for it
    completed,          \* pages whose save_state returned
    known,              \* start_url and the frontiers save_state was given
    verifiedOf,         \* per completed page, the pageLog of its last pass
    \* check_link called on its own
    probe               \* the url, the response to its GET and what came back

proc == <<pc, visited_pages, links_to_crawl, menu_links, count_links, current_page,
          menu_todo, menu_results, page_links, written, printed_total>>
pageHist == <<degraded, bodyChecks, seen>>
runHist == <<loaded, menuRan, visits, fetches, checks, rowCalls, enqueued, extracted,
            pageLog, pageHist>>
lifeHist == <<prevEnd, extracts, completed, known, verifiedOf>>
vars == <<stateFile, csv, record_only_broken, runs, proc, runHist, lifeHist, probe>>

Running == pc \notin {"idle", "killed", "done", "crashed"}

NoProbe == [url |-> NoPage, response |-> Ok, result |-> "", raised |-> FALSE]

Init ==
    /\ stateFile = NoStateFile
    /\ csv = <<>>
    /\ record_only_broken \in BOOLEAN
    /\ runs = 0
    /\ pc = "idle"
    /\ visited_pages = {} /\ links_to_crawl = {} /\ menu_links = {}
    /\ count_links = 0 /\ current_page = NoPage
    /\ menu_todo = {} /\ menu_results = <<>> /\ page_links = {}
    /\ written = <<>> /\ printed_total = -1
    /\ loaded = <<{}, {}>> /\ menuRan = FALSE /\ visits = ZeroCount
    /\ fetches = 0 /\ checks = 0 /\ rowCalls = 0 /\ enqueued = {}
    /\ extracted = {} /\ pageLog = {}
    /\ degraded = FALSE /\ bodyChecks = NoChecks /\ seen = {}
    /\ prevEnd = "none" /\ extracts = ZeroCount /\ completed = {}
    /\ known = {start_url} /\ verifiedOf = NoLog
    /\ probe = NoProbe

\* The process ends without reaching line 150: its memory is gone, and the
\* rows in flushed have reached the report file.
Dies(how, flushed) ==
    /\ csv' = csv \o flushed
    /\ pc' = how
    /\ visited_pages' = {} /\ links_to_crawl' = {} /\ menu_links' = {}
    /\ count_links' = 0 /\ current_page' = NoPage
    /\ menu_todo' = {} /\ menu_results' = <<>> /\ page_links' = {}
    /\ written' = <<>> /\ printed_total' = -1
    /\ loaded' = <<{}, {}>> /\ menuRan' = FALSE /\ visits' = ZeroCount
    /\ fetches' = 0 /\ checks' = 0 /\ rowCalls' = 0 /\ enqueued' = {}
    /\ extracted' = {} /\ pageLog' = {}
    /\ degraded' = FALSE /\ bodyChecks' = NoChecks /\ seen' = {}
    /\ UNCHANGED <<stateFile, record_only_broken, runs, lifeHist, probe>>

\* The process is started: lines 92-96 and 118. pickle.load raises on a file
\* that was opened for writing and never dumped; crawl_website does not
\* catch it.
Start ==
    /\ ~Running
    /\ runs < MaxRuns
    /\ runs' = runs + 1
    /\ prevEnd' = IF pc = "idle" THEN "none" ELSE pc
    /\ IF stateFile.exists /\ ~stateFile.readable
       THEN /\ pc' = "crashed"
            /\ visited_pages' = {} /\ links_to_crawl' = {}
            /\ loaded' = <<{}, {}>>
       ELSE /\ pc' = "menu"
            /\ loaded' = <<stateFile.visited, stateFile.frontier>>
            /\ LET state == load_state(stateFile)
               IN /\ visited_pages' = state[1]
                  /\ links_to_crawl' =
                        IF NeedsSeed(state[1], state[2])
                        THEN state[2] \cup {start_url} ELSE state[2]
    /\ menu_links' = {} /\ count_links' = 0 /\ current_page' = NoPage
    /\ menu_todo' = {} /\ menu_results' = <<>> /\ page_links' = {}
    /\ written' = <<>> /\ printed_total' = -1
    /\ menuRan' = FALSE /\ visits' = ZeroCount
    /\ fetches' = 0 /\ checks' = 0 /\ rowCalls' = 0 /\ enqueued' = {}
    /\ extracted' = {} /\ pageLog' = {}
    /\ degraded' = FALSE /\ bodyChecks' = NoChecks /\ seen' = {}
    /\ UNCHANGED <<stateFile, csv, record_only_broken, extracts, completed, known,
                   verifiedOf, probe>>

\* lines 99-101: the start page is fetched for its menu links
MenuExtract ==
    /\ pc = "menu"
    /\ MenuPassDue(visited_pages)
    /\ \E response \in PageResponses :
          IF Raises(response)
          THEN Dies("crashed", written)
          ELSE /\ menu_links' = extract_menu_links(response)
               /\ menu_todo' = menu_links'
               /\ menu_results' = <<>>
               /\ menuRan' = TRUE
               /\ fetches' = fetches + 1
               /\ pc' = "menu_check"
               /\ UNCHANGED <<stateFile, csv, record_only_broken, runs, visited_pages,
                              links_to_crawl, count_links, current_page, page_links,
                              written, printed_total, loaded, visits, checks, rowCalls,
                              enqueued, extracted, pageLog, pageHist, lifeHist, probe>>

\* lines 114-116: resuming, menu links are taken as checked
MenuSkip ==
    /\ pc = "menu"
    /\ ~MenuPassDue(visited_pages)
    /\ menu_links' = {}
    /\ pc' = "loop"
    /\ UNCHANGED <<stateFile, csv, record_only_broken, runs, visited_pages,
                   links_to_crawl, count_links, current_page, menu_todo, menu_results,
                   page_links, written, printed_total, runHist, lifeHist, probe>>

\* lines 103-106: one iteration over menu_links
MenuCheck ==
    /\ pc = "menu_check"
    /\ \E menu_link \in menu_todo : \E response \in StatusResponses(menu_link) :
          IF Raises(response)
          THEN Dies("crashed", written)
          ELSE /\ menu_todo' = menu_todo \ {menu_link}
               /\ menu_results' =
                    Append(menu_results, <<start_url, menu_link, check_link(response)>>)
               /\ fetches' = fetches + 1
               /\ checks' = checks + 1
               /\ UNCHANGED <<stateFile, csv, record_only_broken, runs, pc,
                              visited_pages, links_to_crawl, menu_links, count_links,
                              current_page, page_links, written, printed_total, loaded,
                              menuRan, visits, rowCalls, enqueued, extracted, pageLog,
                              pageHist, lifeHist, probe>>

\* lines 108-113: the header and the kept menu rows are written
MenuWrite ==
    /\ pc = "menu_check"
    /\ menu_todo = {}
    /\ LET kept == SelectSeq(menu_results, LAMBDA r : Keep(record_only_broken, r[3]))
       IN /\ written' = <<HeaderRow>> \o kept
          /\ rowCalls' = rowCalls + 1 + Len(kept)
    /\ pc' = "menu_close"
    /\ UNCHANGED <<stateFile, csv, record_only_broken, runs, visited_pages,
                   links_to_crawl, menu_links, count_links, current_page, menu_todo,
                   menu_results, page_links, printed_total, loaded, menuRan, visits,
                   fetches, checks, enqueued, extracted, pageLog, pageHist,
                   lifeHist, probe>>

\* the end of the with block of line 108
MenuClose ==
    /\ pc = "menu_close"
    /\ csv' = CloseFile(csv, written)
    /\ written' = <<>>
    /\ pc' = "loop"
    /\ UNCHANGED <<stateFile, record_only_broken, runs, visited_pages, links_to_crawl,
                   menu_links, count_links, current_page, menu_todo, menu_results,
                   page_links, printed_total, runHist, lifeHist, probe>>

\* lines 120-125: a page is popped, in any order; it is marked visited, or
\* dropped when it was visited or lies outside base_url
Pop ==
    /\ pc = "loop"
    /\ links_to_crawl # {}
    /\ \E page \in links_to_crawl :
          /\ links_to_crawl' = links_to_crawl \ {page}
          /\ current_page' = page
          /\ IF ShouldVisit(page, visited_pages, base_url)
             THEN /\ visited_pages' = MarkVisited(visited_pages, page)
                  /\ visits' = [visits EXCEPT ![page] = @ + 1]
                  /\ pc' = "get_links"
             ELSE /\ UNCHANGED <<visited_pages, visits>>
                  /\ pc' = "loop"
    /\ UNCHANGED <<stateFile, csv, record_only_broken, runs, menu_links, count_links,
                   menu_todo, menu_results, page_links, written, printed_total, loaded,
                   menuRan, fetches, checks, rowCalls, enqueued, extracted, pageLog,
                   pageHist, lifeHist, probe>>

\* lines 127-130: the page is fetched for its body links and the report is
\* opened for appending
GetBodyLinks ==
    /\ pc = "get_links"
    /\ \E response \in PageResponses :
          IF Raises(response)
          THEN Dies("crashed", written)
          ELSE /\ page_links' = get_body_links(current_page, response, menu_links)
               /\ extracted' = {pair[2] : pair \in page_links'}
               /\ degraded' = (response.exc \/ ~is_html(response))
               /\ seen' = IF response.exc \/ ~is_html(response) THEN seen
                          ELSE seen \cup {u \in response.anchors :
                                            /\ is_valid_url(u)
                                            /\ is_same_or_subpath(u, base_url)
                                            /\ ~IsTagged(u)}
               /\ fetches' = fetches + 1
               /\ extracts' = [extracts EXCEPT ![current_page] = @ + 1]
               /\ pageLog' = {}
               /\ written' = <<>>
               /\ pc' = "links"
               /\ UNCHANGED <<stateFile, csv, record_only_broken, runs, visited_pages,
                              links_to_crawl, menu_links, count_links, current_page,
                              menu_todo, menu_results, printed_total, loaded, menuRan,
                              visits, checks, rowCalls, enqueued, bodyChecks, prevEnd,
                              completed, known, verifiedOf, probe>>

\* lines 132-145: one iteration over page_links, in any order
CheckBodyLink ==
    /\ pc = "links"
    /\ \E pair \in page_links :
        LET source_page == pair[1]
            link_url == pair[2]
        IN IF IsTagged(link_url)
           THEN /\ page_links' = page_links \ {pair}
                /\ UNCHANGED <<stateFile, csv, record_only_broken, runs, pc,
                               visited_pages, links_to_crawl, menu_links, count_links,
                               current_page, menu_todo, menu_results, written,
                               printed_total, runHist, lifeHist, probe>>
           ELSE \E response \in StatusResponses(link_url) :
                 IF Raises(response)
                 THEN Dies("crashed", written)
                 ELSE LET status == check_link(response)
                      IN /\ page_links' = page_links \ {pair}
                         /\ count_links' = count_links + 1
                         /\ fetches' = fetches + 1
                         /\ checks' = checks + 1
                         /\ bodyChecks' = bodyChecks (+) SetToBag({pair})
                         /\ pageLog' = pageLog \cup {<<link_url, status>>}
                         /\ IF Keep(record_only_broken, status)
                            THEN /\ written' =
                                      Append(written, <<source_page, link_url, status>>)
                                 /\ rowCalls' = rowCalls + 1
                            ELSE UNCHANGED <<written, rowCalls>>
                         /\ IF ShouldEnqueue(link_url, visited_pages, base_url)
                            THEN /\ links_to_crawl' = links_to_crawl \cup {link_url}
                                 /\ enqueued' = enqueued \cup {link_url}
                            ELSE UNCHANGED <<links_to_crawl, enqueued>>
                         /\ UNCHANGED <<stateFile, csv, record_only_broken, runs, pc,
                                        visited_pages, menu_links, current_page,
                                        menu_todo, menu_results, printed_total, loaded,
                                        menuRan, visits, extracted, degraded, seen,
                                        lifeHist, probe>>

\* the end of the with block of line 129
CloseCsv ==
    /\ pc = "links"
    /\ page_links = {}
    /\ csv' = CloseFile(csv, written)
    /\ written' = <<>>
    /\ pc' = "save"
    /\ UNCHANGED <<stateFile, record_only_broken, runs, visited_pages, links_to_crawl,
                   menu_links, count_links, current_page, menu_todo, menu_results,
                   page_links, printed_total, runHist, lifeHist, probe>>

\* line 80: open('crawl_state.pkl', 'wb') empties the file
SaveOpen ==
    /\ pc = "save"
    /\ stateFile' = OpenedStateFile
    /\ pc' = "dump"
    /\ UNCHANGED <<csv, record_only_broken, runs, visited_pages, links_to_crawl,
                   menu_links, count_links, current_page, menu_todo, menu_results,
                   page_links, written, printed_total, runHist, lifeHist, probe>>

\* line 81 and the end of the with block of line 80
SaveDump ==
    /\ pc = "dump"
    /\ stateFile' = Pickled(visited_pages, links_to_crawl)
    /\ completed' = completed \cup {current_page}
    /\ known' = known \cup links_to_crawl
    /\ verifiedOf' = [verifiedOf EXCEPT ![current_page] = pageLog]
    /\ pc' = "loop"
    /\ UNCHANGED <<csv, record_only_broken, runs, visited_pages, links_to_crawl,
                   menu_links, count_links, current_page, menu_todo, menu_results,
                   page_links, written, printed_total, runHist, prevEnd, extracts,
                   probe>>

\* line 150: the frontier is empty
Finish ==
    /\ pc = "loop"
    /\ links_to_crawl = {}
    /\ printed_total' = count_links
    /\ pc' = "done"
    /\ UNCHANGED <<stateFile, csv, record_only_broken, runs, visited_pages,
                   links_to_crawl, menu_links, count_links, current_page, menu_todo,
                   menu_results, page_links, written, runHist, lifeHist, probe>>

\* The process is killed; of the rows written to a report file that is still
\* open, any prefix may have reached the disk. Only a kill that a restart
\* can follow is modelled.
Kill ==
    /\ Running
    /\ runs < MaxRuns
    /\ \E k \in 0..Len(written) : Dies("killed", SubSeq(written, 1, k))

Next ==
    \/ Start \/ MenuExtract \/ MenuSkip \/ MenuCheck \/ MenuWrite \/ MenuClose
    \/ Pop \/ GetBodyLinks \/ CheckBodyLink \/ CloseCsv \/ SaveOpen \/ SaveDump
    \/ Finish \/ Kill

Spec == Init /\ [][Next]_vars

\* the program as main() runs it: line 158 passes record_only_broken=True
MainInit == Init /\ record_only_broken = TRUE

MainSpec == MainInit /\ [][Next]_vars

(* ---- the process is never killed ---- *)
\* a step of crawl_website: the interpreter goes on while the process lives
Step ==
    \/ MenuExtract \/ MenuSkip \/ MenuCheck \/ MenuWrite \/ MenuClose
    \/ Pop \/ GetBodyLinks \/ CheckBodyLink \/ CloseCsv \/ SaveOpen \/ SaveDump
    \/ Finish

NextUnkilled == Start \/ Step

LiveSpec == Init /\ [][NextUnkilled]_vars /\ WF_vars(Step)

(* ---- check_link on its own ---- *)
\* the status codes a GET may end with
ProbeCodes == {200, 204, 304, 404, 500}

\* the outcomes of the GET of line 25
ProbeResponses ==
    {Failure(e) : e \in TransportErrors} \cup
    {[Answer(code) EXCEPT !.content_type = t] : code \in ProbeCodes, t \in ContentTypes}

\* check_link(url) is called once more
Probe ==
    /\ \E url \in Hrefs, response \in ProbeResponses :
          probe' = [url |-> url, response |-> response,
                    result |-> IF Raises(response) THEN "" ELSE check_link(response),
                    raised |-> Raises(response)]
    /\ UNCHANGED <<stateFile, csv, record_only_broken, runs, proc, runHist, lifeHist>>

ProbeSpec == Init /\ [][Probe]_vars

(* ---- the claims ---- *)
Rows(seq) == {seq[i] : i \in 1..Len(seq)}
HeaderCount(seq) == Cardinality({i \in 1..Len(seq) : seq[i] = HeaderRow})
InScope(u) == is_same_or_subpath(u, base_url)
Visited == {u \in Hrefs : visits[u] > 0}

\* C1: within one run no URL has the "mark visited and extract body links"
\* step more than once, for every pop order and every content of the pages.
NoDuplicateVisit == \A u \in Hrefs : visits[u] <= 1

\* a finished run that visited the start page and page b, page b linking
\* back to the start page
NoDuplicateVisitWitness ==
    /\ pc = "done"
    /\ visits[start_url] = 1 /\ visits[PageB] = 1
    /\ <<PageB, start_url, Working>> \in Rows(csv)

\* C2: after a kill at any point and a restart, load_state returns a pair
\* holding every completed page as visited and every known, not completed
\* in-scope URL in the frontier (the start URL re-seeded).
NoFrontierEntryLost ==
    (prevEnd = "killed" /\ pc \in {"menu", "crashed"}) =>
        /\ pc = "menu"
        /\ completed \subseteq visited_pages
        /\ (known \ completed) \subseteq links_to_crawl

\* C2 with the kill not falling between lines 80 and 81
NoFrontierEntryLostUnlessMidSave ==
    (prevEnd = "killed" /\ pc \in {"menu", "crashed"}
        /\ ~(stateFile.exists /\ ~stateFile.readable)) =>
        /\ pc = "menu"
        /\ completed \subseteq visited_pages
        /\ (known \ completed) \subseteq links_to_crawl

MenuPassOnlyWhenFresh ==
    /\ pc \in {"menu_check", "menu_close", "loop", "get_links", "links", "save",
               "dump", "done"}
          => (menuRan <=> loaded[1] = {})
    /\ loaded[1] # {} =>
          /\ ~menuRan
          /\ menu_links = {} /\ menu_todo = {} /\ menu_results = <<>>
          /\ HeaderRow \notin Rows(written)
          /\ visits = ZeroCount => (fetches = 0 /\ checks = 0 /\ rowCalls = 0)

MenuPassOnlyWhenFreshWitness ==
    /\ pc = "done"
    /\ loaded[1] # {}
    /\ checks > 0

\* C5: a run started after a run that reached Done fetches nothing, writes
\* no row, visits nothing and goes straight to Done.
Idempotence ==
    prevEnd = "done" =>
        /\ fetches = 0 /\ checks = 0 /\ rowCalls = 0
        /\ written = <<>>
        /\ visits = ZeroCount
        /\ pc \in {"menu", "loop", "done", "killed"}

IdempotenceWitness ==
    /\ prevEnd = "done"
    /\ pc = "done"
    /\ Len(csv) > 1

\* C6: the header row is in the report exactly once over all the runs of a
\* crawl, killed and restarted runs included, and before every other row.
HeaderExactlyOnce ==
    /\ HeaderCount(csv) <= 1
    /\ csv # <<>> => csv[1] = HeaderRow
    /\ pc \in {"loop", "get_links", "links", "save", "dump", "done"}
          => HeaderCount(csv) = 1

\* C7: over kills and restarts no page has its body links extracted more
\* than once and no (source page, link URL) row is in the report twice.
NoWorkRedone ==
    /\ \A u \in Hrefs : extracts[u] <= 1
    /\ \A i, j \in 1..Len(csv) :
          (i # j /\ csv[i] # HeaderRow) =>
              ~(csv[i][1] = csv[j][1] /\ csv[i][2] = csv[j][2])

\* C8: for every page of the persisted visited set, the rows of its verified
\* body links that pass the filter were in the report file, the file
\* closed, before the state was saved; the state is saved only after the
\* last link of a page, never between two of them.
ResultsBeforeCheckpoint ==
    /\ (stateFile.exists /\ stateFile.readable) =>
          /\ stateFile.visited \subseteq completed
          /\ \A page \in stateFile.visited : \A e \in verifiedOf[page] :
                Keep(record_only_broken, e[2]) => <<page, e[1], e[2]>> \in Rows(csv)
    /\ pc \in {"save", "dump"} =>
          /\ page_links = {} /\ written = <<>>
          /\ \A u \in extracted : ~IsTagged(u) => \E e \in pageLog : e[1] = u
          /\ \A e \in pageLog :
                Keep(record_only_broken, e[2])
                    => <<current_page, e[1], e[2]>> \in Rows(csv)

ResultsBeforeCheckpointWitness ==
    /\ stateFile.exists /\ stateFile.readable
    /\ record_only_broken
    /\ PageB \in stateFile.visited
    /\ verifiedOf[PageB] = {<<start_url, Working>>, <<External, Broken>>}

\* C9: with record_only_broken every row of the report but the header is
\* Broken; without it every verified link has its row.
ReportFilter ==
    /\ record_only_broken =>
          \A row \in Rows(csv) \cup Rows(written) : row = HeaderRow \/ row[3] = Broken
    /\ (~record_only_broken
          /\ pc \in {"menu_close", "loop", "get_links", "links", "save", "dump", "done"})
          => rowCalls = checks + (IF menuRan THEN 1 ELSE 0)
    /\ (~record_only_broken /\ runs = 1 /\ pc \in {"loop", "get_links", "save", "dump", "done"})
          => Len(csv) = rowCalls

ReportFilterWitness ==
    /\ record_only_broken
    /\ pc = "done"
    /\ checks > rowCalls
    /\ <<start_url, External, Broken>> \in Rows(csv)

\* C10: no URL outside base_url is ever in the frontier or the visited set,
\* in memory or in the state file, or fetched for its body links; as a body
\* link that is not skipped it is verified and its row written when the
\* filter keeps it.
ScopeGatesEnqueueOnly ==
    /\ \A u \in links_to_crawl \cup visited_pages \cup stateFile.visited
                  \cup stateFile.frontier : InScope(u)
    /\ \A u \in Hrefs : ~InScope(u) => (visits[u] = 0 /\ extracts[u] = 0)
    /\ pc \in {"save", "dump"} =>
          \A u \in extracted : (~InScope(u) /\ ~IsTagged(u)) =>
              \E e \in pageLog :
                  /\ e[1] = u
                  /\ Keep(record_only_broken, e[2])
                        => <<current_page, u, e[2]>> \in Rows(csv)

ScopeGatesEnqueueOnlyWitness ==
    /\ pc = "save"
    /\ External \in extracted
    /\ <<External, Broken>> \in pageLog
    /\ <<current_page, External, Broken>> \in Rows(csv)
    /\ External \notin links_to_crawl

\* C11: no failed or non-HTML fetch ends the crawl. A link whose GET fails is
\* recorded Broken; a page whose GET fails or is not HTML gives no body link,
\* is still marked visited and saved, and the loop goes on to Done.
FailureIsolation ==
    /\ pc = "crashed" => (stateFile.exists /\ ~stateFile.readable)
    /\ \A e \in pageLog : e[1] \in DeadLinks => e[2] = Broken
    /\ \A i \in 1..Len(menu_results) :
          menu_results[i][2] \in DeadLinks => menu_results[i][3] = Broken
    /\ (degraded /\ pc \in {"links", "save", "dump"}) =>
          /\ extracted = {} /\ page_links = {} /\ pageLog = {}
          /\ current_page \in visited_pages
    /\ (degraded /\ pc = "loop") =>
          /\ stateFile = Pickled(visited_pages, links_to_crawl)
          /\ current_page \in stateFile.visited
          /\ current_page \in completed
    /\ (degraded /\ pc = "done") =>
          (links_to_crawl = {} /\ current_page \in stateFile.visited)

\* a finished run: the start page linked to page c, whose verification
\* failed, and the GET of the last page it visited failed or was not HTML
FailureIsolationWitness ==
    /\ pc = "done"
    /\ degraded
    /\ <<start_url, PageC, Broken>> \in Rows(csv)
    /\ visits[PageB] = 1 /\ visits[PageC] = 1
    /\ {start_url, PageB, PageC} \subseteq stateFile.visited

\* C12: check_link returns Working exactly when the GET ends with status
\* 200, Broken for every other status and every transport failure, and never
\* raises.
CheckLinkTotal ==
    probe # NoProbe =>
        /\ ~probe.raised
        /\ probe.result \in {Working, Broken}
        /\ probe.result = Working <=>
              (~probe.response.exc /\ probe.response.status_code = 200)

\* a GET that ended with a status other than 200 and below 400
CheckLinkTotalWitness ==
    /\ probe.url = External
    /\ ~probe.response.exc /\ probe.response.status_code = 304
    /\ probe.result = Broken

\* C13: the frontier and the visited set are disjoint in every state of a
\* run, and so is every pair save_state wrote: a URL enters the frontier only
\* while it is not visited, enters visited only when it is popped, and is
\* never enqueued once visited.
FrontierVisitedDisjoint ==
    /\ links_to_crawl \cap visited_pages = {}
    /\ stateFile.frontier \cap stateFile.visited = {}
    /\ enqueued \cap loaded[1] = {}
    /\ pc \notin {"idle", "killed", "crashed"} => visited_pages = loaded[1] \cup Visited
    /\ \A u \in Visited : u \in loaded[2] \cup enqueued \cup {start_url}

\* page b, being processed, links to the start page, which is visited: the
\* link was verified and not put in the frontier
FrontierVisitedDisjointWitness ==
    /\ pc = "save"
    /\ current_page = PageB
    /\ <<start_url, Working>> \in pageLog
    /\ start_url \in visited_pages
    /\ start_url \notin links_to_crawl
    /\ stateFile.exists /\ stateFile.readable

\* the check_link(u) calls of the run, counting a source page once
ChecksOf(u) ==
    Cardinality({pair \in BagToSet(bodyChecks) : pair[2] = u})
        + Cardinality({i \in 1..Len(menu_results) : menu_results[i][2] = u})

\* C14 as stated: within one run check_link(u) is called at most once for
\* every URL u, also when u is linked from several visited pages.
VerifiedOncePerRun ==
    /\ \A pair \in BagToSet(bodyChecks) : CopiesIn(pair, bodyChecks) <= 1
    /\ \A u \in Hrefs : ChecksOf(u) <= 1

\* C14: within one run no link is verified twice for the same source page:
\* check_link runs at most once for every (source page, link URL) pair of
\* the crawl loop and once for every menu link of the menu pass.
PairVerifiedOncePerRun ==
    /\ \A pair \in BagToSet(bodyChecks) : CopiesIn(pair, bodyChecks) <= 1
    /\ \A i, j \in 1..Len(menu_results) :
          i # j => menu_results[i][2] # menu_results[j][2]

\* pages b and c both link to the external URL, verified once for each
PairVerifiedOncePerRunWitness ==
    /\ pc = "done"
    /\ CopiesIn(<<PageB, External>>, bodyChecks) = 1
    /\ CopiesIn(<<PageC, External>>, bodyChecks) = 1

\* C15: when a run that started without a state and was not killed is done,
\* the frontier is empty and every in-scope URL without the tagged-records
\* prefix that an anchor of a visited HTML page points to has been visited.
CrawlComplete ==
    (pc = "done" /\ menuRan) =>
        /\ links_to_crawl = {}
        /\ seen \subseteq visited_pages

\* C15 for the anchors get_body_links returned
CrawlCompleteButMenu ==
    (pc = "done" /\ menuRan) =>
        /\ links_to_crawl = {}
        /\ (seen \ menu_links) \subseteq visited_pages

\* C16: in a run that started without a state and is not killed, every menu
\* link is verified exactly once, in the menu pass; it is never a body link,
\* so the crawl loop never verifies, records or enqueues it, and the report
\* has at most one row for it.
MenuLinksOnlyInMenuPass ==
    (menuRan /\ pc \in {"menu_close", "loop", "get_links", "links", "save", "dump", "done"})
    => \A m \in menu_links :
          /\ Cardinality({i \in 1..Len(menu_results) : menu_results[i][2] = m}) = 1
          /\ \A pair \in BagToSet(bodyChecks) : pair[2] # m
          /\ m \notin extracted
          /\ \A e \in pageLog : e[1] # m
          /\ \A i \in 1..Len(written) :
                written[i][2] = m => (pc = "menu_close" /\ written[i][1] = start_url)
          /\ m \notin enqueued
          /\ runs = 1 =>
                Cardinality({i \in 1..Len(csv) : csv[i][2] = m})
                    + Cardinality({i \in 1..Len(written) : written[i][2] = m}) <= 1

\* a finished fresh run whose menu link, page c, was also an anchor of a
\* page it visited: one Broken row, from the menu pass, and c not visited
MenuLinksOnlyInMenuPassWitness ==
    /\ pc = "done"
    /\ menuRan
    /\ menu_links = {PageC}
    /\ PageC \in seen
    /\ visits[PageC] = 0
    /\ <<start_url, PageC, Broken>> \in Rows(csv)

\* C17: a run that is not killed reaches Done with an empty frontier, for
\* every pop order and every answer to its fetches; every pop either drops
\* the URL or adds a new URL to the visited set.
Termination ==
    /\ (pc = "menu") ~> (pc = "done" /\ links_to_crawl = {})
    /\ [][(pc = "loop" /\ links_to_crawl' # links_to_crawl) =>
             \/ (pc' = "loop" /\ visited_pages' = visited_pages)
             \/ (/\ pc' = "get_links"
                 /\ current_page' \notin visited_pages
                 /\ visited_pages' = visited_pages \cup {current_page'})]_vars

\* a first run that visited the three pages of the site and is done
TerminationWitness ==
    /\ pc = "done"
    /\ runs = 1
    /\ links_to_crawl = {}
    /\ visited_pages = {start_url, PageB, PageC}
    /\ printed_total >= 0

\* the URL starts with .../otra/reed/tagged-records
UnderTaggedRecords(u) == StartsWith(u, tagged_prefix)

\* C18: a body link under the tagged-records prefix is skipped before
\* anything else is done with it: it is never verified, counted, written to
\* the report or put in the frontier, although it is inside base_url.
TaggedSkipped ==
    /\ \A pair \in BagToSet(bodyChecks) : ~UnderTaggedRecords(pair[2])
    /\ \A e \in pageLog : ~UnderTaggedRecords(e[1])
    /\ \A row \in Rows(csv) \cup Rows(written) : ~UnderTaggedRecords(row[2])
    /\ \A u \in links_to_crawl \cup enqueued \cup visited_pages
                  \cup stateFile.frontier \cup stateFile.visited : ~UnderTaggedRecords(u)
    /\ count_links = BagCardinality(bodyChecks)
    /\ pc \in {"save", "dump"} =>
          count_links >= Cardinality({u \in extracted : ~UnderTaggedRecords(u)})

\* the start page had a tagged-records link, in scope, as its only valid
\* body link: nothing was verified or counted
TaggedSkippedWitness ==
    /\ pc = "save"
    /\ current_page = start_url
    /\ Tagged \in extracted
    /\ InScope(Tagged)
    /\ count_links = 0 /\ checks = Len(menu_results)
    /\ links_to_crawl = {}

\* C19: a kill during save_state leaves a state file that load_state can
\* read, holding the pair saved before or the new pair; the next start
\* never finds an empty or unreadable file.
SaveStateAtomic ==
    /\ pc = "killed" => (stateFile.exists => stateFile.readable)
    /\ pc = "killed" => stateFile.visited \subseteq completed
    /\ pc # "crashed"

\* C20: the total printed when the run is done is the number of check_link
\* calls of the run, those of the menu pass included.
TotalCountsEveryCheck == pc = "done" => printed_total = checks

\* C20 for the check_link calls of the crawl loop
TotalCountsBodyChecks ==
    pc = "done" => printed_total = checks - Len(menu_results)

====
